---- MODULE Spec2Model ----
(***************************************************************************)
(* Model of sigset-rs (src/src/lib.rs): the SigSet wrapper around the      *)
(* libc sigset_t primitives and the Signal newtype.                        *)
(*                                                                         *)
(* A sigset_t is modelled as the set of signal numbers whose bit is set.   *)
(* The five libc primitives bound in `mod sys` are modelled as Linux/glibc *)
(* implements them (the crate is "Bindings for sigset_t on linux"):        *)
(* signal numbers 1..NSIG-1 are representable, and the two numbers glibc   *)
(* reserves for its own use (__SIGRTMIN and __SIGRTMIN+1, i.e. 32 and 33   *)
(* with NSIG = 65) are refused by sigaddset/sigdelset, left out by         *)
(* sigfillset, and accepted by sigismember.                                *)
(***************************************************************************)
EXTENDS Integers, Sequences, FiniteSets

\* Scaled-down _NSIG (glibc: 65): signal numbers 1..NSIG-1 have a bit.
NSIG == 6

\* Largest magnitude of a raw OS status code drawn in SpecStatus.
MaxStatus == 3

VARIABLES
    self,     \* the live SigSet value: <<>> when none, else <<[set |-> bits]>>
    members,  \* membership as told by the calls' results alone (see C10)
    last,     \* record of the most recent call
    last2     \* record of the call before it

vars == <<self, members, last, last2>>

------------------------------------------------------------------------------
(* Value domains *)

\* Signal numbers that have a bit in sigset_t.
SigNums == 1 .. (NSIG - 1)

\* Numbers glibc keeps for itself (SIGCANCEL, SIGSETXID): 32, 33 when NSIG = 65.
InternalSignals == {NSIG \div 2, NSIG \div 2 + 1}

\* Raw c_int values handed to Signal::new: negative, zero, every number with
\* a bit, the first number past the range, and the spec's 9999.
CInts == {-1, 0} \cup (1 .. NSIG) \cup {9999}

\* Raw sigset_t values a caller may hand to from_raw (e.g. obtained from the
\* kernel, which can report the reserved numbers).
RawInputs == {{}, {NSIG \div 2}, InternalSignals, SigNums}

Ok == "Ok(())"
Err == "Err(InvalidSignalError)"
OkBool(b) == IF b THEN "Ok(true)" ELSE "Ok(false)"

------------------------------------------------------------------------------
(* Signal *)

Signal_new(sig) == [raw |-> sig]

Signal_into_raw(sig) == sig.raw

------------------------------------------------------------------------------
(* libc primitives (mod sys), each returning the sigset_t it leaves behind   *)
(* and its int status.                                                       *)

sigemptyset == [set |-> {}, ret |-> 0]

sigfillset == [set |-> SigNums \ InternalSignals, ret |-> 0]

sigaddset(set, signo) ==
    IF signo <= 0 \/ signo >= NSIG \/ signo \in InternalSignals
    THEN [set |-> set, ret |-> -1]
    ELSE [set |-> set \cup {signo}, ret |-> 0]

sigdelset(set, signo) ==
    IF signo <= 0 \/ signo >= NSIG \/ signo \in InternalSignals
    THEN [set |-> set, ret |-> -1]
    ELSE [set |-> set \ {signo}, ret |-> 0]

sigismember(set, signo) ==
    IF signo <= 0 \/ signo >= NSIG
    THEN [set |-> set, ret |-> -1]
    ELSE [set |-> set, ret |-> IF signo \in set THEN 1 ELSE 0]

------------------------------------------------------------------------------
(* SigSet *)

\* Faulty variant: empty() initialised with the wrong primitive.
empty_filled == [set |-> sigfillset.set]

empty == [set |-> sigemptyset.set]

\* Faulty variant: all() setting every bit by hand instead of sigfillset.
all_everybit == [set |-> SigNums]

all == [set |-> sigfillset.set]

as_ptr(s) == s.set

as_mut_ptr(s) == s.set

\* Faulty variant: from_raw re-initialising the value it wraps.
from_raw_reinit(set) == empty

from_raw(set) == [set |-> set]

into_raw(s) == s.set

\* ret < 0 => Err, else Ok(())
add_result(ret) == IF ret < 0 THEN Err ELSE Ok

remove_result(ret) == IF ret < 0 THEN Err ELSE Ok

\* Faulty variant: only a status of exactly 1 read as present.
contains_result_one(ret) == IF ret < 0 THEN Err ELSE OkBool(ret = 1)

\* ret < 0 => Err, else Ok(ret != 0)
contains_result(ret) == IF ret < 0 THEN Err ELSE OkBool(ret # 0)

\* Faulty variant: the bit set in a fresh mask instead of in self.
add_overwrite(s, sig) ==
    LET r == sigaddset({}, Signal_into_raw(sig))
    IN  [self |-> [set |-> r.set], ret |-> r.ret, out |-> add_result(r.ret)]

\* Faulty variant: self re-initialised when the OS call fails.
add_reset_on_error(s, sig) ==
    LET r == sigaddset(as_mut_ptr(s), Signal_into_raw(sig))
    IN  [self |-> IF r.ret < 0 THEN empty ELSE [set |-> r.set],
         ret |-> r.ret, out |-> add_result(r.ret)]

add(s, sig) ==
    LET r == sigaddset(as_mut_ptr(s), Signal_into_raw(sig))
    IN  [self |-> [set |-> r.set], ret |-> r.ret, out |-> add_result(r.ret)]

\* Faulty variant: every bit up to sig cleared, not sig's alone.
remove_all_lower(s, sig) ==
    LET r == sigdelset(as_mut_ptr(s), Signal_into_raw(sig))
    IN  [self |-> [set |-> IF r.ret < 0 THEN r.set
                           ELSE {n \in r.set : n > Signal_into_raw(sig)}],
         ret |-> r.ret, out |-> remove_result(r.ret)]

remove(s, sig) ==
    LET r == sigdelset(as_mut_ptr(s), Signal_into_raw(sig))
    IN  [self |-> [set |-> r.set], ret |-> r.ret, out |-> remove_result(r.ret)]

\* Faulty variant: a negative status reported as absent instead of Err.
contains_swallow(s, sig) ==
    LET r == sigismember(as_ptr(s), Signal_into_raw(sig))
    IN  [self |-> [set |-> r.set], ret |-> r.ret,
         out |-> OkBool(r.ret > 0)]

\* Faulty variant: the query made with the removing primitive.
contains_delset(s, sig) ==
    LET r == sigdelset(as_ptr(s), Signal_into_raw(sig))
    IN  [self |-> [set |-> r.set], ret |-> r.ret, out |-> contains_result(r.ret)]

contains(s, sig) ==
    LET r == sigismember(as_ptr(s), Signal_into_raw(sig))
    IN  [self |-> [set |-> r.set], ret |-> r.ret, out |-> contains_result(r.ret)]

------------------------------------------------------------------------------
(* Calls *)

Call(op, sig, ret, out, raw) ==
    [op |-> op, sig |-> sig, ret |-> ret, out |-> out, raw |-> raw, pre |-> self]

NoCall == [op |-> "none", sig |-> 0, ret |-> 0, out |-> "none", raw |-> {},
           pre |-> <<>>]

Init ==
    /\ self = <<>>
    /\ members = {}
    /\ last = NoCall
    /\ last2 = NoCall

Empty ==
    /\ self' = <<empty>>
    /\ members' = empty.set
    /\ last' = Call("empty", 0, sigemptyset.ret, "SigSet", {})
    /\ last2' = last

All ==
    /\ self' = <<all>>
    /\ members' = all.set
    /\ last' = Call("all", 0, sigfillset.ret, "SigSet", {})
    /\ last2' = last

\* The raw value is one the caller holds: an OS-provided one, or the one the
\* preceding into_raw returned.
FromRaw ==
    \E raw \in RawInputs \cup (IF last.op = "into_raw" THEN {last.raw} ELSE {}) :
        /\ self' = <<from_raw(raw)>>
        /\ members' = from_raw(raw).set
        /\ last' = Call("from_raw", 0, 0, "SigSet", raw)
        /\ last2' = last

\* into_raw takes self by value: no SigSet is left afterwards.
IntoRaw ==
    /\ self # <<>>
    /\ self' = <<>>
    /\ members' = {}
    /\ last' = Call("into_raw", 0, 0, "sigset_t", into_raw(self[1]))
    /\ last2' = last

Add ==
    \E n \in CInts :
        LET c == add(self[1], Signal_new(n)) IN
        /\ self # <<>>
        /\ self' = <<c.self>>
        /\ members' = IF c.out = Ok THEN members \cup {n} ELSE members
        /\ last' = Call("add", n, c.ret, c.out, {})
        /\ last2' = last

Remove ==
    \E n \in CInts :
        LET c == remove(self[1], Signal_new(n)) IN
        /\ self # <<>>
        /\ self' = <<c.self>>
        /\ members' = IF c.out = Ok THEN members \ {n} ELSE members
        /\ last' = Call("remove", n, c.ret, c.out, {})
        /\ last2' = last

Contains ==
    \E n \in CInts :
        LET c == contains(self[1], Signal_new(n)) IN
        /\ self # <<>>
        /\ self' = <<c.self>>
        /\ members' = members
        /\ last' = Call("contains", n, c.ret, c.out, {})
        /\ last2' = last

Next == Empty \/ All \/ FromRaw \/ IntoRaw \/ Add \/ Remove \/ Contains

Spec == Init /\ [][Next]_vars

------------------------------------------------------------------------------
(* The wrappers' reading of the OS status, applied to every status code in   *)
(* -MaxStatus..MaxStatus whatever the collaborator behind it.                *)

StatusCodes == (0 - MaxStatus) .. MaxStatus

InitStatus ==
    /\ self \in {<<empty>>, <<all>>}
    /\ members = self[1].set
    /\ last = NoCall
    /\ last2 = NoCall

StatusAdd ==
    \E r \in StatusCodes :
        /\ last' = Call("add", 0, r, add_result(r), {})
        /\ last2' = last
        /\ UNCHANGED <<self, members>>

StatusRemove ==
    \E r \in StatusCodes :
        /\ last' = Call("remove", 0, r, remove_result(r), {})
        /\ last2' = last
        /\ UNCHANGED <<self, members>>

StatusContains ==
    \E r \in StatusCodes :
        /\ last' = Call("contains", 0, r, contains_result(r), {})
        /\ last2' = last
        /\ UNCHANGED <<self, members>>

NextStatus == StatusAdd \/ StatusRemove \/ StatusContains

SpecStatus == InitStatus /\ [][NextStatus]_vars

------------------------------------------------------------------------------
(* Vocabulary of the properties *)

\* Numbers sigaddset/sigdelset accept.
MutValid == SigNums \ InternalSignals

\* contains(t) on SigSet s, as the caller sees it.
Has(s, t) == contains(s, Signal_new(t)).out

\* Two SigSets the caller cannot tell apart with contains.
SameMembership(s1, s2) == \A t \in CInts : Has(s1, t) = Has(s2, t)

\* C1: a fresh empty() set answers contains(s) = Ok(false) for every signal
\* number that has a bit, both as computed on the fresh value and as returned
\* by a contains call made right after the constructor.
C1_EmptyHasNone ==
    /\ last.op = "empty" =>
           \A n \in SigNums : Has(self[1], n) = OkBool(FALSE)
    /\ (last2.op = "empty" /\ last.op = "contains" /\ last.sig \in SigNums) =>
           last.out = OkBool(FALSE)

C1_Witness ==
    /\ last2.op = "empty" /\ last.op = "contains"
    /\ last.sig \in SigNums /\ last.out = OkBool(FALSE)

\* C2 as stated: a fresh all() set answers contains(s) = Ok(true) for every
\* signal number contains accepts, i.e. every number the representation holds.
C2_AllHasEvery ==
    /\ last.op = "all" =>
           \A n \in SigNums : Has(self[1], n) = OkBool(TRUE)
    /\ (last2.op = "all" /\ last.op = "contains" /\ last.sig \in SigNums) =>
           last.out = OkBool(TRUE)

\* C2 amended: a fresh all() set answers contains(s) = Ok(true) exactly for the
\* signal numbers add accepts, and Ok(false) for the numbers libc reserves.
C2_AllHasEveryAddable ==
    /\ last.op = "all" =>
           \A n \in SigNums : Has(self[1], n) = OkBool(n \in MutValid)
    /\ (last2.op = "all" /\ last.op = "contains" /\ last.sig \in SigNums) =>
           last.out = OkBool(last.sig \in MutValid)

C2_Witness ==
    /\ last2.op = "all" /\ last.op = "contains"
    /\ last.sig \in MutValid /\ last.out = OkBool(TRUE)

\* C3: add(s) of a signal number add accepts returns Ok(()), leaves exactly
\* the previous membership plus s (contains(s) is Ok(true), contains(t) is as
\* before for every other t), and a second add(s) right after it returns
\* Ok(()) and changes nothing.
C3_AddInsertsOnce ==
    /\ (last.op = "add" /\ last.sig \in MutValid) =>
           /\ last.out = Ok
           /\ self[1].set = last.pre[1].set \cup {last.sig}
           /\ Has(self[1], last.sig) = OkBool(TRUE)
           /\ \A t \in CInts \ {last.sig} : Has(self[1], t) = Has(last.pre[1], t)
    /\ (last2.op = "add" /\ last.op = "add" /\ last.sig = last2.sig
            /\ last.sig \in MutValid) =>
           /\ last.out = Ok
           /\ self = last.pre

C3_Witness ==
    /\ last2.op = "add" /\ last.op = "add" /\ last.sig = last2.sig
    /\ last.sig \in MutValid /\ last.out = Ok
    /\ last.sig \notin last2.pre[1].set
    /\ last2.pre[1].set # {}

\* C4: remove(s) of a signal number remove accepts returns Ok(()), leaves
\* exactly the previous membership minus s (contains(s) is Ok(false),
\* contains(t) is as before for every other t), and a second remove(s) right
\* after it returns Ok(()) and changes nothing.
C4_RemoveDeletesOnce ==
    /\ (last.op = "remove" /\ last.sig \in MutValid) =>
           /\ last.out = Ok
           /\ self[1].set = last.pre[1].set \ {last.sig}
           /\ Has(self[1], last.sig) = OkBool(FALSE)
           /\ \A t \in CInts \ {last.sig} : Has(self[1], t) = Has(last.pre[1], t)
    /\ (last2.op = "remove" /\ last.op = "remove" /\ last.sig = last2.sig
            /\ last.sig \in MutValid) =>
           /\ last.out = Ok
           /\ self = last.pre

C4_Witness ==
    /\ last2.op = "remove" /\ last.op = "remove" /\ last.sig = last2.sig
    /\ last.sig \in MutValid /\ last.out = Ok
    /\ last.sig \in last2.pre[1].set
    /\ self[1].set # {}

\* C5 as stated: add, remove and contains fail on the same raw numbers: a
\* mutation and a query of the same number, one right after the other, either
\* both return Err or both return Ok, and on any live set the three calls
\* agree on failing for every raw number.
C5_SameFailureCondition ==
    /\ (last2.op \in {"add", "remove"} /\ last.op = "contains"
            /\ last.sig = last2.sig) =>
           ((last2.out = Err) <=> (last.out = Err))
    /\ self # <<>> =>
           \A n \in CInts :
               /\ (add(self[1], Signal_new(n)).out = Err)
                      <=> (contains(self[1], Signal_new(n)).out = Err)
               /\ (remove(self[1], Signal_new(n)).out = Err)
                      <=> (contains(self[1], Signal_new(n)).out = Err)

\* C5 amended: add and remove return Err exactly when the raw number has no
\* bit (n <= 0 or n >= NSIG) or is one libc reserves, and Ok(()) otherwise;
\* contains returns Err exactly when the raw number has no bit, and Ok(bool)
\* otherwise; a negative status is always surfaced as Err.
C5_FailureConditions ==
    /\ last.op \in {"add", "remove"} =>
           /\ (last.out = Err) <=> (last.sig \notin MutValid)
           /\ (last.out = Ok) <=> (last.sig \in MutValid)
           /\ (last.ret < 0) => (last.out = Err)
    /\ last.op = "contains" =>
           /\ (last.out = Err) <=> (last.sig \notin SigNums)
           /\ (last.out \in {OkBool(TRUE), OkBool(FALSE)}) <=> (last.sig \in SigNums)
           /\ (last.ret < 0) => (last.out = Err)

C5_Witness ==
    /\ last2.op = "add" /\ last2.sig \in InternalSignals /\ last2.out = Err
    /\ last.op = "contains" /\ last.sig = last2.sig /\ last.out = OkBool(FALSE)

\* C6: wrapping the raw value into_raw returned gives back a SigSet that
\* answers contains like the one consumed, for every raw signal number.
C6_RawRoundTrip ==
    /\ (last2.op = "into_raw" /\ last.op = "from_raw" /\ last.raw = last2.raw) =>
           SameMembership(self[1], last2.pre[1])
    /\ self # <<>> =>
           SameMembership(from_raw(into_raw(self[1])), self[1])

C6_Witness ==
    /\ last2.op = "into_raw" /\ last.op = "from_raw" /\ last.raw = last2.raw
    /\ last2.pre[1].set \cap InternalSignals # {}
    /\ last2.pre[1].set \cap MutValid # {}
    /\ last2.pre[1].set # SigNums

\* C7: adding two distinct accepted signals in either order gives the same
\* answers to contains: from every live set, and for two successive adds that
\* took place, against the other order from the same starting set.
C7_AddCommutes ==
    /\ self # <<>> =>
           \A a, b \in MutValid :
               a # b =>
                   SameMembership(
                       add(add(self[1], Signal_new(a)).self, Signal_new(b)).self,
                       add(add(self[1], Signal_new(b)).self, Signal_new(a)).self)
    /\ (last2.op = "add" /\ last.op = "add" /\ last.sig # last2.sig
            /\ last.sig \in MutValid /\ last2.sig \in MutValid) =>
           SameMembership(
               self[1],
               add(add(last2.pre[1], Signal_new(last.sig)).self,
                   Signal_new(last2.sig)).self)

C7_Witness ==
    /\ last2.op = "add" /\ last.op = "add" /\ last.sig # last2.sig
    /\ last.sig \in MutValid /\ last2.sig \in MutValid
    /\ last.out = Ok /\ last2.out = Ok
    /\ {last.sig, last2.sig} \cap last2.pre[1].set = {}

\* C8: contains leaves the set as it was, whatever it returns.
C8_ContainsReadOnly ==
    last.op = "contains" =>
        /\ self = last.pre
        /\ SameMembership(self[1], last.pre[1])

C8_Witness ==
    /\ last.op = "contains" /\ last.out = OkBool(TRUE)
    /\ last2.op = "contains" /\ last2.out = Err
    /\ self[1].set # SigNums

\* C9: every wrapper reads the OS status the same way: add and remove return
\* Err for a negative status and Ok(()) for any other; contains returns Err
\* for a negative status, Ok(false) for 0 and Ok(true) for a positive one.
C9_StatusMapping ==
    /\ last.op \in {"add", "remove"} =>
           /\ last.ret < 0 => last.out = Err
           /\ last.ret >= 0 => last.out = Ok
    /\ last.op = "contains" =>
           /\ last.ret < 0 => last.out = Err
           /\ last.ret = 0 => last.out = OkBool(FALSE)
           /\ last.ret > 0 => last.out = OkBool(TRUE)

C9_Witness ==
    /\ last.op = "contains" /\ last.ret > 1 /\ last.out = OkBool(TRUE)
    /\ last2.op = "add" /\ last2.ret > 0 /\ last2.out = Ok

\* C10: an add or remove that returns Err leaves the set as it was, so the
\* live set always equals what its constructor gave, changed only by the adds
\* and removes that returned Ok(()).
C10_FailedMutationKeepsSet ==
    /\ (last.op \in {"add", "remove"} /\ last.out = Err) =>
           /\ self = last.pre
           /\ SameMembership(self[1], last.pre[1])
    /\ self # <<>> => self[1].set = members

C10_Witness ==
    /\ last.op = "add" /\ last.out = Err /\ last.sig \in InternalSignals
    /\ last2.op = "remove" /\ last2.out = Err
    /\ self[1].set # {}

====
